---- MODULE Spec2Model ----
(***************************************************************************)
(* A model of the ToyC front end: the token stream (src/src/token.h), the  *)
(* recursive-descent parser with its integrated semantic checks            *)
(* (src/src/parser.cpp, src/src/symbol.h) and the lexer that feeds it      *)
(* (src/src/lexer.cpp).                                                    *)
(*                                                                         *)
(* The parser's call stack is explicit: pc is the label being executed,    *)
(* stack the return labels of the open calls, ret the value returned by    *)
(* the call that finished last.  Expression parsing (Expr .. PrimaryExpr), *)
(* sync_to_stmt and the parameter loop of FuncDef run inside one step.     *)
(*                                                                         *)
(* Strings of the program are sequences of one-character strings, so that  *)
(* the lexer can take them apart: the name main is <<"m","a","i","n">>.    *)
(*                                                                         *)
(* Six specifications share the variables; each runs one component and     *)
(* leaves the others idle:                                                 *)
(*   Spec         the parser on the tokens of the lexer                    *)
(*   GrammarSpec  the parser on programs that exercise the grammar         *)
(*   BlockSpec    the parser on functions with nested blocks               *)
(*   LexSpec      Lexer::tokenize, one token a step                        *)
(*   DumpSpec     the dumping lexer of src/lexer.cpp and its main          *)
(*   SymSpec      calls on SymbolTable (src/src/symbol_table.cpp) or on    *)
(*                SymTable (src/src/symbol.h)                              *)
(***************************************************************************)
EXTENDS Integers, Sequences, FiniteSets, TLC

VARIABLES
    tokens,              \* Parser::tokens, the input (never modified)
    pos,                 \* Parser::pos, 1-based here
    errors,              \* Parser::errors
    functions_declared,  \* Parser::functions_declared
    current_function,    \* Parser::current_function (<<>> is the empty string)
    func_table,          \* Parser::func_table
    vartable,            \* Parser::vartable: SymTable::scopes
    pc,                  \* the label the parser is at
    stack,               \* return labels of the open calls
    ret,                 \* value returned by the last call that returned
    checks,              \* history: the checks made so far
    iter_start,          \* history: for each open Block, the position at
                         \* which the current pass of its loop began
    \* Lexer (src/src/lexer.cpp)
    src_text,            \* Lexer::text
    lex,                 \* [i, line]: Lexer::i (1-based here), Lexer::line
    lex_out,             \* the vector out that tokenize() builds
    starts,              \* history: the index in text of each token's first
                         \* character
    lex_pc,              \* "loop" in the loop of tokenize(), then "done"
    \* the lexer dump (src/lexer.cpp)
    input,               \* Lexer::input
    dump_pos,            \* Lexer::pos, 1-based here
    dumped,              \* the lines main has printed: [type, value]
    dump_pc,             \* "loop" in the loop of main, then "done"
    \* the symbol tables (src/src/symbol_table.cpp, src/src/symbol.h)
    scope_chain,         \* current_scope and its parents, outermost first
    scope_stack_size,    \* SymbolTable::scope_stack_size
    next_scope_level,    \* SymbolTable::next_scope_level
    symtab,              \* a SymTable driven by the same calls
    decls                \* history: the declarations made, in order

parser_vars ==
    <<tokens, pos, errors, functions_declared, current_function, func_table,
      vartable, pc, stack, ret, checks, iter_start>>

lexer_vars == <<src_text, lex, lex_out, starts, lex_pc>>

dump_vars == <<input, dump_pos, dumped, dump_pc>>

sym_vars == <<scope_chain, scope_stack_size, next_scope_level, symtab, decls>>

vars == <<parser_vars, lexer_vars, dump_vars, sym_vars>>

\* what the steps of the parser leave alone
not_parser == <<lexer_vars, dump_vars, sym_vars>>

----------------------------------------------------------------------------
(* Tokens: src/src/token.h *)

Token(t, l, ln) == [type |-> t, lexeme |-> l, line |-> ln]

Range(s) == {s[i] : i \in DOMAIN s}

Last(s) == s[Len(s)]

----------------------------------------------------------------------------
(* Parser helpers.  A parse state st is the part of the parser that        *)
(* straight-line code changes: [pos, errors, checks].                      *)

Cur(st) == tokens[st.pos]

check(st, t) == Cur(st).type = t

advance(st) ==
    [st EXCEPT !.pos = IF st.pos + 1 <= Len(tokens) THEN st.pos + 1 ELSE st.pos]

add_error_line_nodedup(st, ln) ==
    [st EXCEPT !.errors = Append(st.errors, ln)]

add_error_line(st, ln) ==
    IF st.errors = <<>> \/ Last(st.errors) # ln
    THEN [st EXCEPT !.errors = Append(st.errors, ln)]
    ELSE st

\* history only: the check of kind k made for the token at position p
Note(st, k, p, e) ==
    [st EXCEPT !.checks = st.checks \cup {[kind |-> k, pos |-> p, err |-> e]}]

\* cur.line is recorded for a grammar mismatch at the current token
syntax_error_silent(st) == Note(st, "syntax", st.pos, TRUE)

syntax_error(st) == Note(add_error_line(st, Cur(st).line), "syntax", st.pos, TRUE)

SyncSet ==
    {"T_SEMI", "T_LBRACE", "T_RBRACE", "T_KW_INT", "T_KW_VOID", "T_KW_IF",
     "T_KW_WHILE", "T_KW_RETURN", "T_KW_BREAK", "T_KW_CONTINUE"}

RECURSIVE sync_skip(_)
sync_skip(st) ==
    IF ~check(st, "T_EOF") /\ Cur(st).type \notin SyncSet
    THEN sync_skip(advance(st))
    ELSE st

sync_to_stmt(st) ==
    LET s == sync_skip(st)
    IN  IF check(s, "T_SEMI") THEN advance(s) ELSE s

Ok(st) == [ok |-> TRUE, st |-> st]

Fail(st) == [ok |-> FALSE, st |-> st]

----------------------------------------------------------------------------
(* SymTable: src/src/symbol.h *)

NoVars == [n \in {} |-> 0]

push_scope(vt) == Append(vt, NoVars)

\* a pop_scope that leaves the scope on the stack
pop_scope_kept(vt) == vt

pop_scope(vt) == IF vt # <<>> THEN SubSeq(vt, 1, Len(vt) - 1) ELSE vt

declare_var(vt, name, line) ==
    IF name \in DOMAIN vt[Len(vt)]
    THEN vt
    ELSE [vt EXCEPT ![Len(vt)] = (name :> line) @@ vt[Len(vt)]]

has_var_current_only(vt, name) ==
    vt # <<>> /\ name \in DOMAIN vt[Len(vt)]

has_var(vt, name) == \E i \in DOMAIN vt : name \in DOMAIN vt[i]

----------------------------------------------------------------------------
(* Expressions: Expr .. PrimaryExpr.  Each returns [ok, st].               *)

callee_known_unchecked(name) == TRUE

callee_known(name) ==
    name \in functions_declared \/ name = current_function

RelOps == {"T_LT", "T_GT", "T_LE", "T_GE", "T_EQ", "T_NEQ"}

\* The five binary levels LOrExpr, LAndExpr, RelExpr, AddExpr and MulExpr
\* have one shape: parse the next level, then loop while the current token
\* is an operator of the level.  LevelOps[k] is the operator set of level k.
LevelOps ==
    << {"T_OROR"}, {"T_ANDAND"}, RelOps, {"T_PLUS", "T_MINUS"},
       {"T_MUL", "T_DIV", "T_MOD"} >>

RECURSIVE BinExpr(_, _), BinLoop(_, _), UnaryExpr(_), PrimaryExpr(_), CallArgs(_)

\* level k: LOrExpr (k = 1), LAndExpr, RelExpr, AddExpr, MulExpr (k = 5)
BinExpr(k, st) ==
    LET r == IF k = Len(LevelOps) THEN UnaryExpr(st) ELSE BinExpr(k + 1, st)
    IN  IF ~r.ok THEN r ELSE BinLoop(k, r.st)

\* the while loop of level k
BinLoop(k, st) ==
    IF Cur(st).type \in LevelOps[k]
    THEN LET r == IF k = Len(LevelOps) THEN UnaryExpr(advance(st))
                  ELSE BinExpr(k + 1, advance(st))
         IN  IF ~r.ok THEN Fail(syntax_error(r.st)) ELSE BinLoop(k, r.st)
    ELSE Ok(st)

Expr(st) == BinExpr(1, st)

UnaryExpr(st) ==
    IF check(st, "T_PLUS") \/ check(st, "T_MINUS") \/ check(st, "T_NOT")
    THEN LET r == UnaryExpr(advance(st))
         IN  IF ~r.ok THEN Fail(syntax_error(r.st)) ELSE r
    ELSE PrimaryExpr(st)

\* the argument loop of a call: Expr ("," Expr)*
CallArgs(st) ==
    LET r == Expr(st)
    IN  IF ~r.ok THEN Fail(syntax_error(r.st))
        ELSE IF check(r.st, "T_COMMA") THEN CallArgs(advance(r.st))
        ELSE r

PrimaryExpr(st) ==
    IF check(st, "T_ID")
    THEN LET name == Cur(st).lexeme
             ln   == Cur(st).line
             p    == st.pos
             s1   == advance(st)
         IN  IF check(s1, "T_LPAREN")
             THEN LET s2 == advance(s1)
                      a  == IF ~check(s2, "T_RPAREN") THEN CallArgs(s2) ELSE Ok(s2)
                  IN  IF ~a.ok THEN a
                      ELSE IF ~check(a.st, "T_RPAREN") THEN Fail(syntax_error(a.st))
                      ELSE LET s3 == advance(a.st)
                           IN  IF ~callee_known(name)
                               THEN Ok(Note(add_error_line(s3, ln), "call", p, TRUE))
                               ELSE Ok(Note(s3, "call", p, FALSE))
             ELSE IF ~has_var(vartable, name)
                  THEN Ok(Note(add_error_line(s1, ln), "var", p, TRUE))
                  ELSE Ok(Note(s1, "var", p, FALSE))
    ELSE IF check(st, "T_NUMBER") THEN Ok(advance(st))
    ELSE IF check(st, "T_LPAREN")
    THEN LET r == Expr(advance(st))
         IN  IF ~r.ok THEN Fail(syntax_error(r.st))
             ELSE IF ~check(r.st, "T_RPAREN") THEN Fail(syntax_error(r.st))
             ELSE Ok(advance(r.st))
    ELSE Fail(st)

----------------------------------------------------------------------------
(* The call stack of the recursive descent.                                *)

St == [pos |-> pos, errors |-> errors, checks |-> checks]

Commit(st) ==
    /\ pos' = st.pos
    /\ errors' = st.errors
    /\ checks' = st.checks

Call(target, back) ==
    /\ pc' = target
    /\ stack' = Append(stack, back)
    /\ UNCHANGED ret

Return(v) ==
    /\ pc' = Last(stack)
    /\ stack' = SubSeq(stack, 1, Len(stack) - 1)
    /\ ret' = v

Goto(l) ==
    /\ pc' = l
    /\ UNCHANGED <<stack, ret>>

\* { add_error_line(cur.line); sync_to_stmt(); }
recover(st) == sync_to_stmt(syntax_error(st))

\* if (!match(t)) { add_error_line(cur.line); sync_to_stmt(); }
expect(st, t) == IF check(st, t) THEN advance(st) ELSE recover(st)

\* if (!Expr()) { add_error_line(cur.line); sync_to_stmt(); }
expr_or_recover(st) ==
    LET r == Expr(st) IN IF r.ok THEN r.st ELSE recover(r.st)

main == <<"m", "a", "i", "n">>

----------------------------------------------------------------------------
(* parse: src/src/parser.cpp 37-54 *)

parse ==
    /\ pc = "parse"
    /\ Call("CompUnit", "parse_check")
    /\ UNCHANGED <<not_parser, tokens, iter_start, pos, errors, functions_declared, current_function,
                   func_table, vartable, checks>>

main_check_skipped(st) == Note(st, "main", 0, FALSE)

main_check(st) ==
    IF main \notin functions_declared
    THEN Note(add_error_line(st, tokens[1].line), "main", 0, TRUE)
    ELSE IF main \notin DOMAIN func_table
    THEN Note(add_error_line(st, tokens[1].line), "main", 0, TRUE)
    ELSE IF ~func_table[main].returns_int \/ Len(func_table[main].params) # 0
    THEN Note(add_error_line(st, func_table[main].declared_line), "main", 0, TRUE)
    ELSE Note(st, "main", 0, FALSE)

parse_check ==
    /\ pc = "parse_check"
    /\ Commit(main_check(St))
    /\ pc' = "done"
    /\ UNCHANGED <<not_parser, tokens, iter_start, functions_declared, current_function, func_table,
                   vartable, stack, ret>>

is_accept == errors = <<>>

----------------------------------------------------------------------------
(* CompUnit: src/src/parser.cpp 63-71 *)

RECURSIVE skip_to_top(_)
skip_to_top(st) ==
    IF ~check(st, "T_EOF") /\ Cur(st).type # "T_KW_INT" /\ Cur(st).type # "T_KW_VOID"
    THEN skip_to_top(advance(st))
    ELSE st

CompUnit ==
    /\ pc = "CompUnit"
    /\ IF check(St, "T_EOF")
       THEN Return(ret)
       ELSE Call("FuncDef", "CompUnit_after")
    /\ UNCHANGED <<not_parser, tokens, iter_start, pos, errors, functions_declared, current_function,
                   func_table, vartable, checks>>

CompUnit_after ==
    /\ pc = "CompUnit_after"
    /\ Commit(IF ~ret THEN skip_to_top(syntax_error(St)) ELSE St)
    /\ Goto("CompUnit")
    /\ UNCHANGED <<not_parser, tokens, iter_start, functions_declared, current_function, func_table,
                   vartable>>

----------------------------------------------------------------------------
(* FuncDef: src/src/parser.cpp 78-154 *)

FuncInfo(n, ri, ps, dl) ==
    [name |-> n, returns_int |-> ri, params |-> ps, declared_line |-> dl]

\* the loop over Param ("," Param)*: [st, params]
RECURSIVE param_list(_, _)
param_list(st, params) ==
    IF ~check(st, "T_KW_INT")
    THEN [st |-> recover(st), params |-> params]
    ELSE LET s1 == advance(st)
         IN  IF ~check(s1, "T_ID")
             THEN [st |-> recover(s1), params |-> params]
             ELSE LET ps == Append(params, Cur(s1).lexeme)
                      s2 == advance(s1)
                  IN  IF check(s2, "T_COMMA")
                      THEN param_list(advance(s2), ps)
                      ELSE [st |-> s2, params |-> ps]

dup_check_none(st, fname) == Note(st, "dup", st.pos, fname \in functions_declared)

dup_check(st, fname) ==
    IF fname \in functions_declared
    THEN Note(add_error_line(st, Cur(st).line), "dup", st.pos, TRUE)
    ELSE Note(st, "dup", st.pos, FALSE)

\* [st, ok, fd, body]: body is TRUE when Block() is called, and then fi is
\* the record stored in func_table
FuncDef_head(st) ==
    IF ~(check(st, "T_KW_INT") \/ check(st, "T_KW_VOID"))
    THEN [st |-> st, body |-> FALSE, fd |-> functions_declared]
    ELSE
    LET returns_int == check(st, "T_KW_INT")
        decl_line   == Cur(st).line
        s1          == advance(st)
    IN  IF ~check(s1, "T_ID")
        THEN [st |-> recover(s1), body |-> FALSE, fd |-> functions_declared]
        ELSE
        LET fname == Cur(s1).lexeme
            s2    == dup_check(s1, fname)
            fd    == functions_declared \cup {fname}
            s3    == advance(s2)
        IN  IF ~check(s3, "T_LPAREN")
            THEN [st |-> recover(s3), body |-> FALSE, fd |-> fd]
            ELSE
            LET s4 == advance(s3)
                pl == IF ~check(s4, "T_RPAREN")
                      THEN param_list(s4, <<>>)
                      ELSE [st |-> s4, params |-> <<>>]
                s5 == IF check(pl.st, "T_RPAREN")
                      THEN advance(pl.st)
                      ELSE syntax_error(pl.st)
            IN  [st |-> s5, body |-> TRUE, fd |-> fd,
                 fi |-> FuncInfo(fname, returns_int, pl.params, decl_line)]

FuncDef ==
    /\ pc = "FuncDef"
    /\ LET h == FuncDef_head(St)
       IN  /\ Commit(h.st)
           /\ functions_declared' = h.fd
           /\ IF h.body
              THEN /\ func_table' = (h.fi.name :> h.fi) @@ func_table
                   /\ current_function' = h.fi.name
                   /\ Call("Block", "FuncDef_after")
              ELSE /\ UNCHANGED <<func_table, current_function>>
                   /\ Return(FALSE)
    /\ UNCHANGED <<not_parser, tokens, iter_start, vartable>>

FuncDef_after ==
    /\ pc = "FuncDef_after"
    /\ current_function' = <<>>
    /\ Return(ret)
    /\ UNCHANGED <<not_parser, tokens, iter_start, pos, errors, functions_declared, func_table,
                   vartable, checks>>

----------------------------------------------------------------------------
(* Block: src/src/parser.cpp 173-203 *)

\* the loop that declares the current function's parameters in the new scope
RECURSIVE inject_params(_, _, _)
inject_params(vt, params, line) ==
    IF params = <<>>
    THEN vt
    ELSE inject_params(declare_var(vt, params[1], line), Tail(params), line)

Block_scope(vt) ==
    IF current_function # <<>> /\ current_function \in DOMAIN func_table
    THEN inject_params(push_scope(vt), func_table[current_function].params,
                       func_table[current_function].declared_line)
    ELSE push_scope(vt)

Block ==
    /\ pc = "Block"
    /\ IF ~check(St, "T_LBRACE")
       THEN /\ Commit(syntax_error(St))
            /\ Return(FALSE)
            /\ UNCHANGED <<vartable, iter_start>>
       ELSE /\ Commit(advance(St))
            /\ vartable' = Block_scope(vartable)
            /\ iter_start' = Append(iter_start, pos)
            /\ Goto("Block_loop")
    /\ UNCHANGED <<not_parser, tokens, functions_declared, current_function, func_table>>

Block_loop ==
    /\ pc = "Block_loop"
    /\ IF ~check(St, "T_RBRACE") /\ ~check(St, "T_EOF")
       THEN /\ Call("Stmt", "Block_after")
            /\ iter_start' = [iter_start EXCEPT ![Len(iter_start)] = pos]
            /\ UNCHANGED <<pos, errors, checks, vartable>>
       ELSE IF ~check(St, "T_RBRACE")
       THEN /\ Commit(syntax_error(St))
            /\ vartable' = pop_scope(vartable)
            /\ iter_start' = SubSeq(iter_start, 1, Len(iter_start) - 1)
            /\ Return(FALSE)
       ELSE /\ Commit(advance(St))
            /\ vartable' = pop_scope(vartable)
            /\ iter_start' = SubSeq(iter_start, 1, Len(iter_start) - 1)
            /\ Return(TRUE)
    /\ UNCHANGED <<not_parser, tokens, functions_declared, current_function, func_table>>

Block_after ==
    /\ pc = "Block_after"
    /\ Commit(IF ~ret THEN sync_to_stmt(St) ELSE St)
    /\ Goto("Block_loop")
    /\ UNCHANGED <<not_parser, tokens, iter_start, functions_declared, current_function, func_table,
                   vartable>>

----------------------------------------------------------------------------
(* Stmt: src/src/parser.cpp 212-357 *)

\* what a branch of Stmt that calls nothing leaves behind
Out(st, ok) == [st |-> st, ok |-> ok, vt |-> vartable]

\* { add_error_line(cur.line); sync_to_stmt(); return false; }
Bad(st) == Out(recover(st), FALSE)

Finish(out) ==
    /\ Commit(out.st)
    /\ vartable' = out.vt
    /\ Return(out.ok)
    /\ UNCHANGED <<not_parser, tokens, iter_start, functions_declared, current_function, func_table>>

Stmt_block ==
    /\ pc = "Stmt"
    /\ check(St, "T_LBRACE")
    /\ Goto("Block")
    /\ UNCHANGED <<not_parser, tokens, iter_start, pos, errors, functions_declared, current_function,
                   func_table, vartable, checks>>

Stmt_empty ==
    /\ pc = "Stmt"
    /\ check(St, "T_SEMI")
    /\ Finish(Out(advance(St), TRUE))

decl_stmt(st) ==
    LET s1 == advance(st)
    IN  IF ~check(s1, "T_ID") THEN Bad(s1)
        ELSE
        LET vname == Cur(s1).lexeme
            s2    == advance(s1)
        IN  IF ~check(s2, "T_ASSIGN") THEN Bad(s2)
            ELSE
            LET r == Expr(advance(s2))
            IN  IF ~r.ok THEN Bad(r.st)
                ELSE IF ~check(r.st, "T_SEMI") THEN Bad(r.st)
                ELSE LET s3 == advance(r.st)
                     IN  [st |-> s3, ok |-> TRUE,
                          vt |-> declare_var(vartable, vname, Cur(s3).line)]

Stmt_decl ==
    /\ pc = "Stmt"
    /\ check(St, "T_KW_INT")
    /\ Finish(decl_stmt(St))

Stmt_if ==
    /\ pc = "Stmt"
    /\ check(St, "T_KW_IF")
    /\ LET s1 == advance(St)
       IN  IF ~check(s1, "T_LPAREN")
           THEN Finish(Bad(s1))
           ELSE /\ Commit(expect(expr_or_recover(advance(s1)), "T_RPAREN"))
                /\ Call("Stmt", "Stmt_if_then")
                /\ UNCHANGED <<not_parser, tokens, iter_start, functions_declared, current_function,
                               func_table, vartable>>

Stmt_if_then ==
    /\ pc = "Stmt_if_then"
    /\ LET s1 == IF ~ret THEN recover(St) ELSE St
       IN  IF check(s1, "T_KW_ELSE")
           THEN /\ Commit(advance(s1))
                /\ Call("Stmt", "Stmt_if_else")
                /\ UNCHANGED <<not_parser, tokens, iter_start, functions_declared, current_function,
                               func_table, vartable>>
           ELSE Finish(Out(s1, TRUE))

Stmt_if_else ==
    /\ pc = "Stmt_if_else"
    /\ Finish(Out(IF ~ret THEN recover(St) ELSE St, TRUE))

Stmt_while ==
    /\ pc = "Stmt"
    /\ check(St, "T_KW_WHILE")
    /\ LET s1 == advance(St)
       IN  IF ~check(s1, "T_LPAREN")
           THEN Finish(Bad(s1))
           ELSE /\ Commit(expect(expr_or_recover(advance(s1)), "T_RPAREN"))
                /\ Call("Stmt", "Stmt_while_body")
                /\ UNCHANGED <<not_parser, tokens, iter_start, functions_declared, current_function,
                               func_table, vartable>>

Stmt_while_body ==
    /\ pc = "Stmt_while_body"
    /\ Finish(Out(IF ~ret THEN recover(St) ELSE St, TRUE))

Stmt_break ==
    /\ pc = "Stmt"
    /\ check(St, "T_KW_BREAK")
    /\ Finish(Out(expect(advance(St), "T_SEMI"), TRUE))

Stmt_continue ==
    /\ pc = "Stmt"
    /\ check(St, "T_KW_CONTINUE")
    /\ Finish(Out(expect(advance(St), "T_SEMI"), TRUE))

return_mismatch_int_only(returns_int, has_expr) == returns_int /\ ~has_expr

return_mismatch(returns_int, has_expr) ==
    IF returns_int THEN ~has_expr ELSE has_expr

\* the semantic check of a return statement whose keyword is at position p
return_check(st, p, has_expr) ==
    LET ln == tokens[p].line
    IN  IF current_function = <<>> \/ current_function \notin DOMAIN func_table
        THEN Note(add_error_line(st, ln), "ret", p, TRUE)
        ELSE IF return_mismatch(func_table[current_function].returns_int, has_expr)
        THEN Note(add_error_line(st, ln), "ret", p, TRUE)
        ELSE Note(st, "ret", p, FALSE)

return_stmt(st) ==
    LET p  == st.pos
        s1 == advance(st)
    IN  IF check(s1, "T_SEMI")
        THEN Out(return_check(advance(s1), p, FALSE), TRUE)
        ELSE
        LET r == Expr(s1)
        IN  IF ~r.ok
            THEN LET s2 == recover(r.st)
                 IN  Out(IF check(s2, "T_SEMI") THEN advance(s2) ELSE s2, FALSE)
            ELSE IF ~check(r.st, "T_SEMI") THEN Bad(r.st)
            ELSE Out(return_check(advance(r.st), p, TRUE), TRUE)

Stmt_return ==
    /\ pc = "Stmt"
    /\ check(St, "T_KW_RETURN")
    /\ Finish(return_stmt(St))

id_stmt(st) ==
    LET name == Cur(st).lexeme
        s1   == advance(st)
    IN  IF check(s1, "T_ASSIGN")
        THEN LET r == Expr(advance(s1))
             IN  IF ~r.ok THEN Bad(r.st)
                 ELSE IF ~check(r.st, "T_SEMI") THEN Bad(r.st)
                 ELSE LET s2 == advance(r.st)
                      IN  IF ~has_var(vartable, name)
                          THEN Out(Note(add_error_line(s2, Cur(st).line),
                                        "assign", st.pos, TRUE), TRUE)
                          ELSE Out(Note(s2, "assign", st.pos, FALSE), TRUE)
        ELSE LET r == Expr(st)
             IN  IF ~r.ok THEN Bad(r.st)
                 ELSE IF ~check(r.st, "T_SEMI") THEN Bad(r.st)
                 ELSE Out(advance(r.st), TRUE)

Stmt_id ==
    /\ pc = "Stmt"
    /\ check(St, "T_ID")
    /\ Finish(id_stmt(St))

StmtStarters ==
    {"T_LBRACE", "T_SEMI", "T_KW_INT", "T_KW_IF", "T_KW_WHILE", "T_KW_BREAK",
     "T_KW_CONTINUE", "T_KW_RETURN", "T_ID"}

expr_stmt(st) ==
    LET r == Expr(st)
    IN  IF r.ok
        THEN IF ~check(r.st, "T_SEMI") THEN Bad(r.st) ELSE Out(advance(r.st), TRUE)
        ELSE Bad(r.st)

Stmt_expr ==
    /\ pc = "Stmt"
    /\ Cur(St).type \notin StmtStarters
    /\ Finish(expr_stmt(St))

----------------------------------------------------------------------------
(* Lexer: src/src/lexer.cpp.  text is a sequence of characters, a lexer    *)
(* state ls is [i, line] with i 1-based.                                   *)

NUL == "NUL"

Digits == {"0", "1", "2", "3", "4", "5", "6", "7", "8", "9"}

Letters ==
    {"a", "b", "c", "d", "e", "f", "g", "h", "i", "j", "k", "l", "m", "n",
     "o", "p", "q", "r", "s", "t", "u", "v", "w", "x", "y", "z",
     "A", "B", "C", "D", "E", "F", "G", "H", "I", "J", "K", "L", "M", "N",
     "O", "P", "Q", "R", "S", "T", "U", "V", "W", "X", "Y", "Z"}

Spaces == {" ", "\t", "\n", "\r", "\f"}

peek(text, ls) == IF ls.i > Len(text) THEN NUL ELSE text[ls.i]

get_same_line(text, ls) ==
    IF ls.i > Len(text) THEN ls ELSE [ls EXCEPT !.i = ls.i + 1]

get(text, ls) ==
    IF ls.i > Len(text)
    THEN ls
    ELSE [i |-> ls.i + 1,
          line |-> IF text[ls.i] = "\n" THEN ls.line + 1 ELSE ls.line]

starts_with(text, ls, s) ==
    /\ ls.i + Len(s) - 1 <= Len(text)
    /\ SubSeq(text, ls.i, ls.i + Len(s) - 1) = s

skip2(ls) == [ls EXCEPT !.i = ls.i + 2]

RECURSIVE line_comment(_, _)
line_comment(text, ls) ==
    IF peek(text, ls) # "\n" /\ peek(text, ls) # NUL
    THEN line_comment(text, get(text, ls))
    ELSE ls

\* [ls, closed]
RECURSIVE block_comment(_, _)
block_comment(text, ls) ==
    IF peek(text, ls) = NUL THEN [ls |-> ls, closed |-> FALSE]
    ELSE IF starts_with(text, ls, <<"*", "/">>)
    THEN [ls |-> skip2(ls), closed |-> TRUE]
    ELSE block_comment(text, get(text, ls))

RECURSIVE skip_whitespace_only(_, _)
skip_whitespace_only(text, ls) ==
    IF peek(text, ls) \in Spaces
    THEN skip_whitespace_only(text, get(text, ls))
    ELSE ls

RECURSIVE skip_whitespace_and_comments(_, _)
skip_whitespace_and_comments(text, ls) ==
    IF peek(text, ls) \in Spaces
    THEN skip_whitespace_and_comments(text, get(text, ls))
    ELSE IF starts_with(text, ls, <<"/", "/">>)
    THEN skip_whitespace_and_comments(text, line_comment(text, skip2(ls)))
    ELSE IF starts_with(text, ls, <<"/", "*">>)
    THEN LET c == block_comment(text, skip2(ls))
         IN  IF ~c.closed THEN c.ls
             ELSE skip_whitespace_and_comments(text, c.ls)
    ELSE ls

\* the maximal run of characters of set cs from ls on: [ls, s]
RECURSIVE read_run(_, _, _, _)
read_run(text, ls, cs, s) ==
    IF peek(text, ls) \in cs
    THEN read_run(text, get(text, ls), cs, Append(s, peek(text, ls)))
    ELSE [ls |-> ls, s |-> s]

Keywords ==
    (<<"i", "n", "t">> :> "T_KW_INT")
    @@ (<<"v", "o", "i", "d">> :> "T_KW_VOID")
    @@ (<<"i", "f">> :> "T_KW_IF")
    @@ (<<"e", "l", "s", "e">> :> "T_KW_ELSE")
    @@ (<<"w", "h", "i", "l", "e">> :> "T_KW_WHILE")
    @@ (<<"b", "r", "e", "a", "k">> :> "T_KW_BREAK")
    @@ (<<"c", "o", "n", "t", "i", "n", "u", "e">> :> "T_KW_CONTINUE")
    @@ (<<"r", "e", "t", "u", "r", "n">> :> "T_KW_RETURN")

lex_identifier_only(text, ls) ==
    LET r == read_run(text, ls, Letters \cup Digits \cup {"_"}, <<>>)
    IN  [ls |-> r.ls, tok |-> Token("T_ID", r.s, r.ls.line)]

\* [ls, tok]
lex_identifier_or_keyword(text, ls) ==
    LET r == read_run(text, ls, Letters \cup Digits \cup {"_"}, <<>>)
    IN  [ls |-> r.ls,
         tok |-> Token(IF r.s \in DOMAIN Keywords THEN Keywords[r.s] ELSE "T_ID",
                       r.s, r.ls.line)]

lex_number(text, ls) ==
    LET m  == peek(text, ls) = "-"
        l1 == IF m THEN get(text, ls) ELSE ls
        s1 == IF m THEN <<"-">> ELSE <<>>
    IN  IF peek(text, l1) = "0"
        THEN [ls |-> get(text, l1),
              tok |-> Token("T_NUMBER", Append(s1, "0"), get(text, l1).line)]
        ELSE IF peek(text, l1) \notin Digits
        THEN [ls |-> l1, tok |-> Token("T_UNKNOWN", s1, l1.line)]
        ELSE LET r == read_run(text, l1, Digits, s1)
             IN  [ls |-> r.ls, tok |-> Token("T_NUMBER", r.s, r.ls.line)]

TwoCharOps ==
    <<[s |-> <<"=", "=">>, t |-> "T_EQ"], [s |-> <<"!", "=">>, t |-> "T_NEQ"],
      [s |-> <<"<", "=">>, t |-> "T_LE"], [s |-> <<">", "=">>, t |-> "T_GE"],
      [s |-> <<"&", "&">>, t |-> "T_ANDAND"], [s |-> <<"|", "|">>, t |-> "T_OROR"]>>

OneCharOps ==
    ("+" :> "T_PLUS") @@ ("-" :> "T_MINUS") @@ ("*" :> "T_MUL")
    @@ ("/" :> "T_DIV") @@ ("%" :> "T_MOD") @@ ("(" :> "T_LPAREN")
    @@ (")" :> "T_RPAREN") @@ ("{" :> "T_LBRACE") @@ ("}" :> "T_RBRACE")
    @@ ("," :> "T_COMMA") @@ (";" :> "T_SEMI") @@ ("=" :> "T_ASSIGN")
    @@ ("<" :> "T_LT") @@ (">" :> "T_GT") @@ ("!" :> "T_NOT")

\* one pass of the loop of tokenize from a non-blank character: [ls, tok]
lex_one(text, ls) ==
    LET c == peek(text, ls)
        two == {k \in DOMAIN TwoCharOps : starts_with(text, ls, TwoCharOps[k].s)}
    IN  IF two # {}
        THEN LET k == CHOOSE k \in two : \A j \in two : k <= j
             IN  [ls |-> skip2(ls),
                  tok |-> Token(TwoCharOps[k].t, TwoCharOps[k].s, ls.line)]
        ELSE IF c \in Letters \/ c = "_"
        THEN lex_identifier_or_keyword(text, ls)
        ELSE IF c \in Digits
                \/ (c = "-" /\ ls.i + 1 <= Len(text) /\ text[ls.i + 1] \in Digits)
        THEN lex_number(text, ls)
        ELSE LET l1 == get(text, ls)
             IN  [ls |-> l1,
                  tok |-> Token(IF c \in DOMAIN OneCharOps THEN OneCharOps[c]
                                ELSE "T_UNKNOWN", <<c>>, l1.line)]

RECURSIVE tokenize_from(_, _, _)
tokenize_from(text, ls, out) ==
    IF peek(text, ls) = NUL
    THEN Append(out, Token("T_EOF", <<>>, ls.line))
    ELSE LET l1 == skip_whitespace_and_comments(text, ls)
         IN  IF peek(text, l1) = NUL
             THEN Append(out, Token("T_EOF", <<>>, l1.line))
             ELSE LET r == lex_one(text, l1)
                  IN  tokenize_from(text, r.ls, Append(out, r.tok))

tokenize(text) == tokenize_from(text, [i |-> 1, line |-> 1], <<>>)

----------------------------------------------------------------------------
(* The inputs: source texts, read from standard input by main              *)
(* (src/src/main.cpp 9-13).  A text is built from words, separated either  *)
(* by blanks (the whole program on one line) or by newlines (one token a   *)
(* line); programs made of function definitions also come after up to      *)
(* MaxLead empty lines.                                                    *)

MaxStmts == 2      \* statements in the body of main, first family
MaxFuncs == 2      \* function definitions in a program, second family
MaxLead  == 1      \* empty lines before the first token

kInt == <<"i", "n", "t">>
kVoid == <<"v", "o", "i", "d">>
kIf == <<"i", "f">>
kElse == <<"e", "l", "s", "e">>
kWhile == <<"w", "h", "i", "l", "e">>
kBreak == <<"b", "r", "e", "a", "k">>
kContinue == <<"c", "o", "n", "t", "i", "n", "u", "e">>
kReturn == <<"r", "e", "t", "u", "r", "n">>
nF == <<"f">>
nX == <<"x">>
nY == <<"y">>
nA == <<"a">>
n0 == <<"0">>
n1 == <<"1">>
LP == <<"(">>
RP == <<")">>
LB == <<"{">>
RB == <<"}">>
SC == <<";">>
AS == <<"=">>
CM == <<",">>
PL == <<"+">>
SP == <<" ">>
NL == <<"\n">>

RECURSIVE Cat(_)
Cat(ws) == IF ws = <<>> THEN <<>> ELSE ws[1] \o Cat(Tail(ws))

RECURSIVE Join(_, _)
Join(ws, sep) ==
    IF Len(ws) <= 1 THEN Cat(ws) ELSE ws[1] \o sep \o Join(Tail(ws), sep)

RECURSIVE Lead(_)
Lead(n) == IF n = 0 THEN <<>> ELSE NL \o Lead(n - 1)

SeqsUpTo(S, n) == UNION {[1..k -> S] : k \in 1..n}

\* statements, well-formed and not, as sequences of words
StmtPool ==
    << <<kInt, nX, AS, n1, SC>>,
       <<nX, AS, n1, SC>>,
       <<nX, AS, nY, PL, nX, SC>>,
       <<kReturn, nX, SC>>,
       <<kReturn, SC>>,
       <<LB, kInt, nX, AS, n1, SC, RB>>,
       <<LB, nX, SC, RB>>,
       <<kIf, LP, nX, RP, SC, kElse, kContinue, SC>>,
       <<kWhile, LP, n1, RP, kBreak, SC>>,
       <<nF, LP, nX, CM, n1, RP, SC>>,
       <<main, LP, RP, SC>>,
       <<n1, SC>>,
       <<kVoid>>,
       <<RP>>,
       <<kInt, SC>>,
       <<nX, AS, SC>>,
       <<kIf, nX>>,
       <<kWhile, LP, RP, kElse>>,
       <<kBreak>>,
       <<kReturn, RP>> >>

\* function definitions, well-formed and not, as sequences of words
FuncPool ==
    << <<kInt, main, LP, RP, LB, kReturn, n0, SC, RB>>,
       <<kVoid, main, LP, RP, LB, kReturn, SC, RB>>,
       <<kInt, main, LP, kInt, nA, RP, LB, kReturn, nA, SC, RB>>,
       <<kInt, main, LP, RP, LB, kReturn, nF, LP, n1, RP, SC, RB>>,
       <<kInt, main, LP, RP, LB, kReturn, nA, SC, RB>>,
       <<kInt, nF, LP, kInt, nA, RP, LB, kReturn, nF, LP, nA, RP, SC, RB>>,
       <<kVoid, nF, LP, kInt, nA, CM, kInt, nX, RP, LB, nA, AS, nX, SC,
         kReturn, n1, SC, RB>>,
       <<kInt, nF, LP, RP, LB, kReturn, SC, RB>>,
       <<kInt, nF, SC>>,
       <<kInt, main, LP, kInt, RP, LB, RB>>,
       <<nF, LP, RP>> >>

MainOf(body) ==
    <<kInt, main, LP, RP, LB>> \o Cat([i \in DOMAIN body |-> StmtPool[body[i]]])
        \o <<RB>>

ProgramOf(fs) == Cat([i \in DOMAIN fs |-> FuncPool[fs[i]]])

\* the literal programs of the end-to-end scenarios
MissingMainSrc ==
    Cat(<<kInt, SP, nF, LP, RP, SP, LB, SP, kReturn, SP, n0, SC, SP, RB>>)

UndeclaredSrc ==
    Cat(<<kInt, SP, main, LP, RP, SP, LB, SP, nX, SP, AS, SP, n1, SC, SP,
          kReturn, SP, n0, SC, SP, RB>>)

nFoo == <<"f", "o", "o">>

ShortCircuitSrc ==
    Cat(<<kInt, SP, main, LP, RP, SP, LB, SP, kInt, SP, nX, SP, AS, SP, n1, SC,
          SP, kIf, SP, LP, nX, SP, <<"|", "|">>, SP, nFoo, LP, RP, RP, SP,
          kReturn, SP, n0, SC, SP, kReturn, SP, n1, SC, SP, RB>>)

\* main with a body of up to MaxStmts statements
MainPrograms == {MainOf(b) : b \in SeqsUpTo(DOMAIN StmtPool, MaxStmts)}

\* up to MaxFuncs function definitions
Programs == {ProgramOf(fs) : fs \in SeqsUpTo(DOMAIN FuncPool, MaxFuncs)}

\* the words on one line or one word a line; the programs of the second
\* family also one word a line after up to MaxLead empty lines
Sources ==
    {Join(ws, sep) : sep \in {SP, NL}, ws \in MainPrograms \cup Programs}
    \cup {Lead(n) \o Join(ws, NL) : n \in 1..MaxLead, ws \in Programs}
    \cup {Lead(n) \o MissingMainSrc : n \in 0..MaxLead}
    \cup {UndeclaredSrc, ShortCircuitSrc}

----------------------------------------------------------------------------
(* main: src/src/main.cpp 9-20.  The state after Parser's construction.    *)

\* the parts of the state that a specification does not run
lexer_idle ==
    /\ src_text = <<>>
    /\ lex = [i |-> 1, line |-> 1]
    /\ lex_out = <<>>
    /\ starts = <<>>
    /\ lex_pc = "idle"

dump_idle ==
    /\ input = <<>>
    /\ dump_pos = 1
    /\ dumped = <<>>
    /\ dump_pc = "idle"

sym_idle ==
    /\ scope_chain = <<>>
    /\ scope_stack_size = <<>>
    /\ next_scope_level = 0
    /\ symtab = <<>>
    /\ decls = <<>>

parser_idle ==
    /\ tokens = <<>>
    /\ pos = 1
    /\ errors = <<>>
    /\ functions_declared = {}
    /\ current_function = <<>>
    /\ func_table = NoVars
    /\ vartable = <<>>
    /\ pc = "idle"
    /\ stack = <<>>
    /\ ret = FALSE
    /\ checks = {}
    /\ iter_start = <<>>

InitOn(srcs) ==
    /\ lexer_idle
    /\ dump_idle
    /\ sym_idle
    /\ tokens \in {tokenize(src) : src \in srcs}
    /\ pos = 1
    /\ errors = <<>>
    /\ functions_declared = {}
    /\ current_function = <<>>
    /\ func_table = NoVars
    /\ vartable = <<NoVars>>
    /\ pc = "parse"
    /\ stack = <<>>
    /\ ret = FALSE
    /\ checks = {}
    /\ iter_start = <<>>

Init == InitOn(Sources)

Next ==
    \/ parse
    \/ parse_check
    \/ CompUnit
    \/ CompUnit_after
    \/ FuncDef
    \/ FuncDef_after
    \/ Block
    \/ Block_loop
    \/ Block_after
    \/ Stmt_block
    \/ Stmt_empty
    \/ Stmt_decl
    \/ Stmt_if
    \/ Stmt_if_then
    \/ Stmt_if_else
    \/ Stmt_while
    \/ Stmt_while_body
    \/ Stmt_break
    \/ Stmt_continue
    \/ Stmt_return
    \/ Stmt_id
    \/ Stmt_expr

Spec == Init /\ [][Next]_vars

----------------------------------------------------------------------------
(* What the token stream says, read off the tokens alone (not the parser's *)
(* tables): the reference the parser's semantic checks are compared with.  *)
(* It is exact on streams in which the parser met no grammar mismatch.     *)

Positions == DOMAIN tokens

TypeAt(p) == IF p \in Positions THEN tokens[p].type ELSE "none"

\* number of blocks open at token p
Depth(p) ==
    Cardinality({r \in 1..(p - 1) : tokens[r].type = "T_LBRACE"})
    - Cardinality({r \in 1..(p - 1) : tokens[r].type = "T_RBRACE"})

\* the type keywords that start a function definition
FuncStarts ==
    {q \in Positions :
        /\ TypeAt(q) \in {"T_KW_INT", "T_KW_VOID"}
        /\ TypeAt(q + 1) = "T_ID"
        /\ TypeAt(q + 2) = "T_LPAREN"
        /\ Depth(q) = 0}

FuncName(q) == tokens[q + 1].lexeme

Max(S) == CHOOSE x \in S : \A y \in S : y <= x

Min(S) == CHOOSE x \in S : \A y \in S : x <= y

InFunction(p) == \E q \in FuncStarts : q < p

\* the definition that token p lies in
EnclosingFunc(p) == Max({q \in FuncStarts : q < p})

HeaderEnd(q) == Min({r \in Positions : r > q /\ tokens[r].type \in {"T_RPAREN", "T_EOF"}})

ParamNames(q) ==
    {tokens[r].lexeme : r \in {r \in (q + 3)..(HeaderEnd(q) - 1) :
                                 TypeAt(r) = "T_ID" /\ TypeAt(r - 1) = "T_KW_INT"}}

\* the declarations "int ID = Expr ;" that are complete before token p, in
\* a block that is still open at p
VisibleDecls(p) ==
    {d \in 2..(p - 1) :
        /\ TypeAt(d) = "T_ID"
        /\ TypeAt(d - 1) = "T_KW_INT"
        /\ TypeAt(d + 1) = "T_ASSIGN"
        /\ Depth(d) >= 1
        /\ \E r \in (d + 1)..(p - 1) : tokens[r].type = "T_SEMI"
        /\ \A r \in d..p : Depth(r) >= Depth(d)}

VisibleNames(p) ==
    (IF InFunction(p) THEN ParamNames(EnclosingFunc(p)) ELSE {})
    \cup {tokens[d].lexeme : d \in VisibleDecls(p)}

\* identifiers used as a variable or as the target of an assignment
VarRefs ==
    {p \in Positions :
        /\ TypeAt(p) = "T_ID"
        /\ TypeAt(p + 1) # "T_LPAREN"
        /\ TypeAt(p - 1) \notin {"T_KW_INT", "T_KW_VOID"}}

\* identifiers used as the callee of a call
CallSites ==
    {p \in Positions :
        /\ TypeAt(p) = "T_ID"
        /\ TypeAt(p + 1) = "T_LPAREN"
        /\ TypeAt(p - 1) \notin {"T_KW_INT", "T_KW_VOID"}}

ReturnSites == {p \in Positions : TypeAt(p) = "T_KW_RETURN"}

DefinedEarlier(name, p) ==
    /\ InFunction(p)
    /\ \E q \in FuncStarts : q < EnclosingFunc(p) /\ FuncName(q) = name

IsCurrentFunc(name, p) == InFunction(p) /\ FuncName(EnclosingFunc(p)) = name

\* two definitions of one function name
DuplicateDefs ==
    LET fs == FuncStarts
    IN  {q \in fs : \E r \in fs : r < q /\ FuncName(r) = FuncName(q)}

MainDefs == {q \in FuncStarts : FuncName(q) = main}

GoodMain(q) == TypeAt(q) = "T_KW_INT" /\ TypeAt(q + 3) = "T_RPAREN"

NoSyntaxError == \A c \in checks : c.kind # "syntax"

Done == pc = "done"

ChecksOf(kinds) == {c \in checks : c.kind \in kinds}

Recorded(ln) == ln \in Range(errors)

----------------------------------------------------------------------------
(* The claims *)

\* C1: parse() terminates on every token stream that ends with EOF, because
\* every pass of the loop of Block either consumes a token or leaves the
\* loop: whenever control is back at the head of the loop, the parser is
\* past the position at which the pass before began.
C1_BlockLoopConsumes ==
    pc = "Block_loop" => pos > Last(iter_start)

\* C2: after parse(), the list of error lines is in non-decreasing order.
C2_ErrorsNonDecreasing ==
    Done => \A i \in 1..(Len(errors) - 1) : errors[i] <= errors[i + 1]

\* C3: in every reachable state no two consecutive entries of the error
\* list are equal.
C3_NoAdjacentDuplicates ==
    \A i \in 1..(Len(errors) - 1) : errors[i] # errors[i + 1]

\* C3 witness: some call of add_error_line found its line already last in
\* the list (more failed checks than recorded lines).
C3_Witness ==
    /\ Len(errors) >= 2
    /\ Cardinality({c \in checks : c.err}) > Len(errors)

\* C4: every accepted program defines main with return type int and no
\* parameters; a program without main, with a void main or with a main that
\* has parameters is rejected.
C4_AcceptedHasIntMain ==
    Done =>
        /\ is_accept => \E q \in MainDefs : GoodMain(q)
        /\ (MainDefs = {} \/ \E q \in MainDefs : ~GoodMain(q)) => ~is_accept

\* C4 witness: an accepted program, and so one with a good main.
C4_Witness == Done /\ is_accept /\ (\E q \in MainDefs : GoodMain(q))

\* C5: when the main discipline is violated, the line recorded is the
\* declaration line of main if main is defined, and line 1 if it is not.
C5_MainLine ==
    (Done /\ NoSyntaxError) =>
        /\ MainDefs = {} => Last(errors) = 1
        /\ (MainDefs # {} /\ \A q \in MainDefs : ~GoodMain(q))
              => \E q \in MainDefs : Last(errors) = tokens[q].line

\* C6: a variable reference or assignment target records an error at the
\* identifier's line if and only if the name is declared in no scope that
\* is open at that point; and when no grammar mismatch was met, every such
\* identifier of the stream has been checked by the end of parse().
C6_UndeclaredVariable ==
    /\ \A c \in ChecksOf({"var", "assign"}) :
          /\ c.pos \in VarRefs
          /\ c.err <=> tokens[c.pos].lexeme \notin VisibleNames(c.pos)
          /\ c.err => Recorded(tokens[c.pos].line)
    /\ (Done /\ NoSyntaxError) =>
          {c.pos : c \in ChecksOf({"var", "assign"})} = VarRefs

\* C6 witness: a finished parse without grammar mismatch that found a
\* declared variable, and an undeclared one whose name an earlier, closed
\* block or another function had declared.
C6_Witness ==
    /\ Done
    /\ NoSyntaxError
    /\ \E c \in ChecksOf({"var", "assign"}) : ~c.err
    /\ \E c \in ChecksOf({"var", "assign"}) :
          /\ c.err
          /\ \E d \in 2..(c.pos - 1) :
                /\ TypeAt(d) = "T_ID"
                /\ TypeAt(d - 1) = "T_KW_INT"
                /\ tokens[d].lexeme = tokens[c.pos].lexeme

CalleeCheckRight(c) ==
    /\ c.pos \in CallSites
    /\ c.err <=> ~(DefinedEarlier(tokens[c.pos].lexeme, c.pos)
                    \/ IsCurrentFunc(tokens[c.pos].lexeme, c.pos))
    /\ c.err => Recorded(tokens[c.pos].line)

\* C7: a call records an error at the callee's line if and only if the
\* callee is neither defined earlier in the token stream nor the function
\* whose body is being parsed.
C7_CalleeErrorIffUndefined ==
    \A c \in ChecksOf({"call"}) : CalleeCheckRight(c)

\* C8: a second definition of a function name records the line of its name,
\* so a program with two definitions of one name is never accepted.
C8_DuplicateFunction ==
    LET dups == DuplicateDefs
    IN  /\ \A c \in ChecksOf({"dup"}) :
              /\ (c.pos - 1) \in dups => c.err
              /\ c.err => Recorded(tokens[c.pos].line)
        /\ (Done /\ NoSyntaxError) =>
              \A q \in dups :
                  [kind |-> "dup", pos |-> q + 1, err |-> TRUE] \in checks
        /\ (Done /\ dups # {}) => ~is_accept

\* C8 witness: a finished parse of a program whose only fault is the second
\* definition.
C8_Witness ==
    /\ Done
    /\ DuplicateDefs # {}
    /\ \A c \in checks : c.err => c.kind = "dup"
    /\ Len(errors) = 1

ShortCircuitTokens == tokenize(ShortCircuitSrc)

\* C10 as stated: the short-circuit program, lexed and parsed, is accepted.
C10_ShortCircuitAccepted ==
    (Done /\ tokens = ShortCircuitTokens) => is_accept

\* C10 as amended: the short-circuit program is rejected with the single
\* error line 1, the line of the call of the undefined function foo.
C10_ShortCircuitRejected ==
    (Done /\ tokens = ShortCircuitTokens) =>
        /\ errors = <<1>>
        /\ \E c \in ChecksOf({"call"}) : c.err /\ tokens[c.pos].lexeme = nFoo
        /\ \A c \in checks : c.err => c.kind = "call"

\* C10 witness: the parse of the short-circuit program has finished.
C10_Witness == Done /\ tokens = ShortCircuitTokens

----------------------------------------------------------------------------
(* Lexer::tokenize step by step: src/src/lexer.cpp 76-123.  One step is    *)
(* one pass of its loop; the last step appends T_EOF.                      *)

MaxText == 4       \* pieces a source text is made of

\* the characters of the first family of texts
Chars == <<"i", "f", "0", "1", "-", "=", "&">>

\* the pieces of the second family: comments, lines, the end-of-string
\* character inside the text
Pieces ==
    << <<"/", "*">>, <<"*", "/">>, <<"/", "/">>, <<"\n">>, <<"x">>, <<"/">>,
       <<NUL>> >>

Texts ==
    {Cat([k \in DOMAIN f |-> <<Chars[f[k]]>>]) : f \in SeqsUpTo(DOMAIN Chars, MaxText)}
    \cup {Cat([k \in DOMAIN f |-> Pieces[f[k]]]) : f \in SeqsUpTo(DOMAIN Pieces, MaxText)}

LexInit ==
    /\ parser_idle
    /\ dump_idle
    /\ sym_idle
    /\ src_text \in Texts
    /\ lex = [i |-> 1, line |-> 1]
    /\ lex_out = <<>>
    /\ starts = <<>>
    /\ lex_pc = "loop"

\* where the pass stands after skip_whitespace_and_comments()
Skipped ==
    IF peek(src_text, lex) = NUL THEN lex
    ELSE skip_whitespace_and_comments(src_text, lex)

\* the branch of the loop body taken at ls
Branch(ls) ==
    LET c == peek(src_text, ls)
    IN  IF c = NUL THEN "eof"
        ELSE IF \E k \in DOMAIN TwoCharOps : starts_with(src_text, ls, TwoCharOps[k].s)
        THEN "op2"
        ELSE IF c \in Letters \/ c = "_" THEN "word"
        ELSE IF c \in Digits
                \/ (c = "-" /\ ls.i + 1 <= Len(src_text)
                             /\ src_text[ls.i + 1] \in Digits)
        THEN "number"
        ELSE "char"

\* a pass of the loop that emits a token
Emit ==
    /\ LET r == lex_one(src_text, Skipped)
       IN  /\ lex' = r.ls
           /\ lex_out' = Append(lex_out, r.tok)
           /\ starts' = Append(starts, Skipped.i)
    /\ UNCHANGED <<src_text, lex_pc, parser_vars, dump_vars, sym_vars>>

tokenize_op2 ==
    /\ lex_pc = "loop"
    /\ Branch(Skipped) = "op2"
    /\ Emit

tokenize_word ==
    /\ lex_pc = "loop"
    /\ Branch(Skipped) = "word"
    /\ Emit

tokenize_number ==
    /\ lex_pc = "loop"
    /\ Branch(Skipped) = "number"
    /\ Emit

tokenize_char ==
    /\ lex_pc = "loop"
    /\ Branch(Skipped) = "char"
    /\ Emit

\* the loop ends: out.emplace_back(T_EOF, "", line)
tokenize_eof ==
    /\ lex_pc = "loop"
    /\ Branch(Skipped) = "eof"
    /\ lex' = Skipped
    /\ lex_out' = Append(lex_out, Token("T_EOF", <<>>, Skipped.line))
    /\ starts' = Append(starts, Skipped.i)
    /\ lex_pc' = "done"
    /\ UNCHANGED <<src_text, parser_vars, dump_vars, sym_vars>>

LexNext ==
    \/ tokenize_op2
    \/ tokenize_word
    \/ tokenize_number
    \/ tokenize_char
    \/ tokenize_eof

LexSpec == LexInit /\ [][LexNext]_vars

----------------------------------------------------------------------------
(* What the source text says, read off its characters alone: the reference *)
(* the token stream is compared with.                                      *)

\* the positions of text t from p on that are neither white space nor part
\* of a comment, in order, and whether a block comment is left open
RECURSIVE CodeScan(_, _, _, _)
CodeScan(t, p, mode, acc) ==
    LET two(a, b) == p + 1 <= Len(t) /\ t[p] = a /\ t[p + 1] = b
    IN  IF p > Len(t) THEN [code |-> acc, open |-> mode = "block"]
        ELSE IF mode = "line"
        THEN CodeScan(t, p + 1, IF t[p] = "\n" THEN "code" ELSE "line", acc)
        ELSE IF mode = "block"
        THEN IF two("*", "/") THEN CodeScan(t, p + 2, "code", acc)
             ELSE CodeScan(t, p + 1, "block", acc)
        ELSE IF two("/", "/") THEN CodeScan(t, p + 2, "line", acc)
        ELSE IF two("/", "*") THEN CodeScan(t, p + 2, "block", acc)
        ELSE IF t[p] \in Spaces THEN CodeScan(t, p + 1, "code", acc)
        ELSE CodeScan(t, p + 1, "code", Append(acc, p))

CodePositions == CodeScan(src_text, 1, "code", <<>>).code

UnclosedComment == CodeScan(src_text, 1, "code", <<>>).open

\* the source with white space and comments removed
Stripped == [k \in DOMAIN CodePositions |-> src_text[CodePositions[k]]]

\* number of line breaks before position p
NewlinesBefore(p) == Cardinality({q \in 1..(p - 1) : src_text[q] = "\n"})

IdentChars == Letters \cup Digits \cup {"_"}

\* the character at p can start a token of the language
ValidStart(p) ==
    LET c == src_text[p]
    IN  \/ c \in IdentChars
        \/ c \in DOMAIN OneCharOps
        \/ c \in {"&", "|"} /\ p + 1 <= Len(src_text) /\ src_text[p + 1] = c

\* the tokens emitted so far, T_EOF apart
Emitted == {k \in DOMAIN lex_out : lex_out[k].type # "T_EOF"}

\* the positions of the text that token k was read from
Extent(k) == starts[k]..(starts[k] + Len(lex_out[k].lexeme) - 1)

LexDone == lex_pc = "done"

----------------------------------------------------------------------------
(* The claims about Lexer::tokenize *)

\* C11: tokenize() terminates (it makes at most one pass for each character
\* and one more) and returns a sequence whose last token, and only its
\* last, is T_EOF; a character that starts no valid token yields one
\* T_UNKNOWN token whose lexeme is that character, and lexing continues
\* after it: every character outside white space and comments is part of
\* exactly one token.
C11_TokenizeTotal ==
    /\ Len(lex_out) <= Len(src_text) + 1
    /\ \A k \in DOMAIN lex_out :
          lex_out[k].type = "T_EOF" <=> (LexDone /\ k = Len(lex_out))
    /\ \A k \in Emitted :
          ~ValidStart(starts[k]) =>
              /\ lex_out[k].type = "T_UNKNOWN"
              /\ lex_out[k].lexeme = <<src_text[starts[k]]>>
    /\ LexDone =>
          \A j \in DOMAIN CodePositions :
              Cardinality({k \in Emitted : CodePositions[j] \in Extent(k)}) = 1

\* C12: the lexer never consumes a leading minus into an integer literal:
\* the lexeme of every T_NUMBER token consists of digits only, and every
\* '-' outside comments is emitted as its own T_MINUS token.
C12_MinusNeverInNumber ==
    /\ \A k \in Emitted :
          lex_out[k].type = "T_NUMBER" =>
              /\ lex_out[k].lexeme # <<>>
              /\ Range(lex_out[k].lexeme) \subseteq Digits
    /\ LexDone =>
          \A j \in DOMAIN CodePositions :
              src_text[CodePositions[j]] = "-" =>
                  \E k \in Emitted :
                      /\ starts[k] = CodePositions[j]
                      /\ lex_out[k].type = "T_MINUS"
                      /\ lex_out[k].lexeme = <<"-">>

\* C13: a run of consecutive digits is read whole and emitted as a single
\* T_NUMBER token: no digit is next to a T_NUMBER token, before it or after
\* it, for every run including the runs that start with 0.
C13_MaximalDigitRun ==
    \A k \in Emitted :
        lex_out[k].type = "T_NUMBER" =>
            LET first == IF src_text[starts[k]] = "-" THEN starts[k] + 1 ELSE starts[k]
                next  == starts[k] + Len(lex_out[k].lexeme)
            IN  /\ first > 1 => src_text[first - 1] \notin Digits
                /\ next <= Len(src_text) => src_text[next] \notin Digits

\* a maximal run of one character c, at positions outside comments, that
\* has odd length: its last character pairs with nothing
OddRun(c) ==
    \E j \in DOMAIN CodePositions :
        LET p == CodePositions[j]
            after == {q \in p..Len(src_text) : src_text[q] # c}
            end == IF after = {} THEN Len(src_text) + 1 ELSE Min(after)
        IN  /\ src_text[p] = c
            /\ p = 1 \/ src_text[p - 1] # c
            /\ (end - p) % 2 = 1

\* the source holds only characters of the language (outside comments), and
\* no end-of-string character
NoUnknownChars ==
    /\ NUL \notin Range(src_text)
    /\ \A j \in DOMAIN CodePositions :
          src_text[CodePositions[j]] \in
              IdentChars \cup DOMAIN OneCharOps \cup {"&", "|"}
    /\ ~OddRun("&")
    /\ ~OddRun("|")

\* C14: for a source without unknown characters and without an unclosed
\* block comment, the lexemes of the tokens, concatenated in order, are the
\* source with all white space and all comments removed.
C14_LexemesAreStrippedSource ==
    (LexDone /\ NoUnknownChars /\ ~UnclosedComment) =>
        Cat([k \in DOMAIN lex_out |-> lex_out[k].lexeme]) = Stripped

\* C14 witness: a finished run on such a source with a closed block comment
\* between two tokens.
C14_Witness ==
    /\ LexDone
    /\ NoUnknownChars
    /\ ~UnclosedComment
    /\ Len(lex_out) >= 3
    /\ \E p \in 2..(Len(src_text) - 1) :
          /\ src_text[p] = "/"
          /\ src_text[p + 1] = "*"
          /\ p - 1 \in Range(CodePositions)

\* the two-character operators and the keywords of the language
LongOps ==
    {<<"<", "=">>, <<">", "=">>, <<"=", "=">>, <<"!", "=">>, <<"&", "&">>,
     <<"|", "|">>}

KeywordWords == {kInt, kVoid, kIf, kElse, kWhile, kBreak, kContinue, kReturn}

\* C15: longest match: where two characters form a two-character operator
\* that operator is the token; an identifier or keyword is the maximal run
\* of letters, digits and underscores, it is a keyword exactly when the
\* whole run is one of the eight keywords, and no T_ID has a keyword as its
\* lexeme.
C15_LongestMatch ==
    \A k \in Emitted :
        LET p    == starts[k]
            tok  == lex_out[k]
            next == p + Len(tok.lexeme)
        IN  /\ (p + 1 <= Len(src_text) /\ SubSeq(src_text, p, p + 1) \in LongOps) =>
                  tok.lexeme = SubSeq(src_text, p, p + 1)
            /\ (src_text[p] \in Letters \cup {"_"}) =>
                  /\ tok.lexeme = SubSeq(src_text, p, next - 1)
                  /\ next <= Len(src_text) => src_text[next] \notin IdentChars
                  /\ tok.type = "T_ID" <=> tok.lexeme \notin KeywordWords
                  /\ tok.type # "T_ID" => tok.type = Keywords[tok.lexeme]
            /\ tok.type = "T_ID" => tok.lexeme \notin KeywordWords

\* C15 witness: === was read as == then =, or a keyword was read next to an
\* identifier that starts with it.
C15_Witness ==
    /\ LexDone
    /\ \E k \in Emitted :
          /\ k + 1 \in Emitted
          /\ lex_out[k].lexeme = <<"=", "=">>
          /\ lex_out[k + 1].lexeme = <<"=">>
          /\ starts[k + 1] = starts[k] + 2
    /\ \E k \in Emitted : lex_out[k].type = "T_ID"

\* C16: every token other than T_EOF carries line 1 + the number of line
\* breaks before its first character, those inside comments included, and
\* the lines of the stream never decrease.
C16_TokenLines ==
    /\ \A k \in Emitted : lex_out[k].line = 1 + NewlinesBefore(starts[k])
    /\ \A k \in 1..(Len(lex_out) - 1) : lex_out[k].line <= lex_out[k + 1].line

\* C16 witness: a token after a line break that is inside a block comment.
C16_Witness ==
    /\ LexDone
    /\ \E k \in Emitted :
          /\ lex_out[k].line >= 2
          /\ \E q \in 3..(starts[k] - 1) :
                /\ src_text[q] = "\n"
                /\ q \notin Range(CodePositions)
                /\ \E r \in 1..(q - 2) : src_text[r] = "/" /\ src_text[r + 1] = "*"

-----------------------------------------------------------------------------
(* The dumping lexer of src/lexer.cpp: a second Lexer class with its own   *)
(* main, which prints one line id:label:"value" for each token.  Positions *)
(* are 1-based here (pos + 1 of the code).                                 *)

MaxDump == 4       \* characters of an input of the dumping lexer

DumpChars == <<"i", "1", "-", "!", "&", "=", " ", "/", "*", NUL>>

DumpTexts ==
    {[k \in DOMAIN f |-> DumpChars[f[k]]] : f \in SeqsUpTo(DOMAIN DumpChars, MaxDump)}

tokenTypeToString ==
    ("KW_INT" :> "'int'") @@ ("KW_VOID" :> "'void'") @@ ("KW_IF" :> "'if'")
    @@ ("KW_ELSE" :> "'else'") @@ ("KW_WHILE" :> "'while'")
    @@ ("KW_BREAK" :> "'break'") @@ ("KW_CONTINUE" :> "'continue'")
    @@ ("KW_RETURN" :> "'return'") @@ ("LPAREN" :> "'('") @@ ("RPAREN" :> "')'")
    @@ ("LBRACE" :> "'{'") @@ ("RBRACE" :> "'}'") @@ ("SEMICOLON" :> "';'")
    @@ ("COMMA" :> "','") @@ ("ASSIGN" :> "'='") @@ ("PLUS" :> "'+'")
    @@ ("MINUS" :> "'-'") @@ ("STAR" :> "'*'") @@ ("SLASH" :> "'/'")
    @@ ("PERCENT" :> "'%'") @@ ("LT" :> "'<'") @@ ("GT" :> "'>'")
    @@ ("LE" :> "'<='") @@ ("GE" :> "'>='") @@ ("EQ" :> "'=='")
    @@ ("NE" :> "'!='") @@ ("AND" :> "'&&'") @@ ("OR" :> "'||'")
    @@ ("IDENT" :> "Ident") @@ ("INT_CONST" :> "IntConst")

peek_at(t, p, offset) == IF p + offset > Len(t) THEN NUL ELSE t[p + offset]

RECURSIVE skipWhitespace(_, _)
skipWhitespace(t, p) ==
    IF peek_at(t, p, 0) \in {" ", "\t", "\n", "\r"}
    THEN skipWhitespace(t, p + 1)
    ELSE p

\* the position of the first character from p on that is in stop, or the
\* end of the input
RECURSIVE skipUntil(_, _, _)
skipUntil(t, p, stop) ==
    IF peek_at(t, p, 0) \in stop THEN p ELSE skipUntil(t, p + 1, stop)

RECURSIVE skipBlock(_, _)
skipBlock(t, p) ==
    IF peek_at(t, p, 0) = NUL THEN p
    ELSE IF peek_at(t, p, 0) = "*" /\ peek_at(t, p, 1) = "/" THEN p + 2
    ELSE skipBlock(t, p + 1)

skipComment(t, p) ==
    IF peek_at(t, p, 0) = "/"
    THEN IF peek_at(t, p, 1) = "/" THEN skipUntil(t, p, {NUL, "\n"})
         ELSE IF peek_at(t, p, 1) = "*" THEN skipBlock(t, p + 2)
         ELSE p
    ELSE p

\* [p, s]: the characters of cs read from p on, appended to s
RECURSIVE readWhile(_, _, _, _)
readWhile(t, p, cs, s) ==
    IF peek_at(t, p, 0) \in cs
    THEN readWhile(t, p + 1, cs, Append(s, peek_at(t, p, 0)))
    ELSE [p |-> p, s |-> s]

readIdentifier(t, p) == readWhile(t, p, Letters \cup Digits \cup {"_"}, <<>>)

readNumber(t, p) ==
    IF peek_at(t, p, 0) = "-"
    THEN readWhile(t, p + 1, Digits, <<"-">>)
    ELSE readWhile(t, p, Digits, <<>>)

DumpKeywords ==
    (kInt :> "KW_INT") @@ (kVoid :> "KW_VOID") @@ (kIf :> "KW_IF")
    @@ (kElse :> "KW_ELSE") @@ (kWhile :> "KW_WHILE") @@ (kBreak :> "KW_BREAK")
    @@ (kContinue :> "KW_CONTINUE") @@ (kReturn :> "KW_RETURN")

DumpPairs ==
    ("=" :> [one |-> "ASSIGN", next |-> "=", two |-> "EQ"])
    @@ ("<" :> [one |-> "LT", next |-> "=", two |-> "LE"])
    @@ (">" :> [one |-> "GT", next |-> "=", two |-> "GE"])
    @@ ("!" :> [one |-> "", next |-> "=", two |-> "NE"])
    @@ ("&" :> [one |-> "", next |-> "&", two |-> "AND"])
    @@ ("|" :> [one |-> "", next |-> "|", two |-> "OR"])

DumpSingles ==
    ("(" :> "LPAREN") @@ (")" :> "RPAREN") @@ ("{" :> "LBRACE")
    @@ ("}" :> "RBRACE") @@ (";" :> "SEMICOLON") @@ ("," :> "COMMA")
    @@ ("+" :> "PLUS") @@ ("*" :> "STAR") @@ ("/" :> "SLASH")
    @@ ("%" :> "PERCENT")

\* [p, type, value, via]: the token read from p and the position after it;
\* via names the return statement of nextToken that produced it
RECURSIVE nextToken(_, _)
nextToken(t, p0) ==
    LET p  == skipWhitespace(t, p0)
        ch == peek_at(t, p, 0)
        q  == p + 1
        Tok(pp, ty, v, via) == [p |-> pp, type |-> ty, value |-> v, via |-> via]
    IN  IF ch = "/" /\ peek_at(t, p, 1) \in {"/", "*"}
        THEN nextToken(t, skipComment(t, p))
        ELSE IF ch = NUL
        THEN Tok(p, "INT_CONST", <<>>, "end")
        ELSE IF ch \in DOMAIN DumpPairs /\ peek_at(t, q, 0) = DumpPairs[ch].next
        THEN Tok(q + 1, DumpPairs[ch].two, <<ch, DumpPairs[ch].next>>, "operator")
        ELSE IF ch \in DOMAIN DumpPairs /\ DumpPairs[ch].one # ""
        THEN Tok(q, DumpPairs[ch].one, <<ch>>, "operator")
        ELSE IF ch \in DOMAIN DumpSingles
        THEN Tok(q, DumpSingles[ch], <<ch>>, "operator")
        ELSE IF ch \in Letters \/ ch = "_"
        THEN LET r == readIdentifier(t, q)
                 ident == <<ch>> \o r.s
             IN  IF ident \in DOMAIN DumpKeywords
                 THEN Tok(r.p, DumpKeywords[ident], ident, "word")
                 ELSE Tok(r.p, "IDENT", ident, "word")
        ELSE IF ch \in Digits \/ ch = "-"
        THEN IF ch = "-" /\ peek_at(t, q, 0) \notin Digits
             THEN Tok(q, "MINUS", <<"-">>, "minus")
             ELSE LET r == readNumber(t, q)
                  IN  Tok(r.p, "INT_CONST", <<ch>> \o r.s, "number")
        ELSE Tok(q, "INT_CONST", <<ch>>, "fallback")

hasNext == dump_pos <= Len(input)

DumpInit ==
    /\ parser_idle
    /\ lexer_idle
    /\ sym_idle
    /\ input \in DumpTexts
    /\ dump_pos = 1
    /\ dumped = <<>>
    /\ dump_pc = "loop"

\* the rest of a pass of the loop of main: the token is printed with the
\* next id
dump_token ==
    /\ LET r == nextToken(input, dump_pos)
       IN  /\ dump_pos' = r.p
           /\ dumped' = Append(dumped, [id |-> Len(dumped),
                                         label |-> tokenTypeToString[r.type],
                                         value |-> r.value,
                                         start |-> r.p - Len(r.value)])
    /\ UNCHANGED <<input, dump_pc, parser_vars, lexer_vars, sym_vars>>

dump_operator ==
    /\ dump_pc = "loop"
    /\ hasNext
    /\ nextToken(input, dump_pos).via = "operator"
    /\ dump_token

dump_word ==
    /\ dump_pc = "loop"
    /\ hasNext
    /\ nextToken(input, dump_pos).via = "word"
    /\ dump_token

dump_minus ==
    /\ dump_pc = "loop"
    /\ hasNext
    /\ nextToken(input, dump_pos).via = "minus"
    /\ dump_token

dump_number ==
    /\ dump_pc = "loop"
    /\ hasNext
    /\ nextToken(input, dump_pos).via = "number"
    /\ dump_token

dump_fallback ==
    /\ dump_pc = "loop"
    /\ hasNext
    /\ nextToken(input, dump_pos).via = "fallback"
    /\ dump_token

\* nextToken found nothing but white space and comments, or an
\* end-of-string character: main leaves its loop
dump_break ==
    /\ dump_pc = "loop"
    /\ hasNext
    /\ LET r == nextToken(input, dump_pos)
       IN  /\ r.via = "end"
           /\ dump_pos' = r.p
    /\ dump_pc' = "done"
    /\ UNCHANGED <<input, dumped, parser_vars, lexer_vars, sym_vars>>

dump_end ==
    /\ dump_pc = "loop"
    /\ ~hasNext
    /\ dump_pc' = "done"
    /\ UNCHANGED <<input, dump_pos, dumped, parser_vars, lexer_vars, sym_vars>>

DumpNext ==
    \/ dump_operator
    \/ dump_word
    \/ dump_minus
    \/ dump_number
    \/ dump_fallback
    \/ dump_break
    \/ dump_end

DumpSpec == DumpInit /\ [][DumpNext]_vars

\* C19: the dumping lexer labels a token IntConst only when its text is a
\* non-empty run of decimal digits: a lone !, & or | and the text 1-2 are
\* never printed as one IntConst.
C19_IntConstIsDigits ==
    \A k \in DOMAIN dumped :
        dumped[k].label = "IntConst" =>
            /\ dumped[k].value # <<>>
            /\ Range(dumped[k].value) \subseteq Digits

-----------------------------------------------------------------------------
(* The symbol tables: SymbolTable and Scope of src/src/symbol_table.cpp,   *)
(* and SymTable of src/src/symbol.h driven on its own.  A client makes up  *)
(* to MaxOps calls on one of the two tables; decls is the log of the calls. *)
(* scope_chain holds current_scope and its parents, the global scope       *)
(* first; a scope is [level, symbols], its parent the element before it.   *)
(* A lookup returns a set: empty for nullptr, else the one symbol found.   *)

MaxOps == 5        \* calls made on a symbol table

SymNames == {nX, nY}

Symbol(sym_name, sym_type, dt, scope) ==
    [name |-> sym_name, symbol_type |-> sym_type, data_type |-> dt,
     scope_level |-> scope]

Scope(scope_level) == [level |-> scope_level, symbols |-> NoVars]

current_scope == scope_chain[Len(scope_chain)]

lookup_local(scope, name) ==
    IF name \in DOMAIN scope.symbols THEN {scope.symbols[name]} ELSE {}

\* a lookup that asks the global scope first
RECURSIVE lookup_outermost(_, _, _)
lookup_outermost(chain, k, name) ==
    LET outer == IF k > 1 THEN lookup_outermost(chain, k - 1, name) ELSE {}
    IN  IF outer # {} THEN outer ELSE lookup_local(chain[k], name)

\* Scope::lookup on the k-th scope of the chain
RECURSIVE lookup(_, _, _)
lookup(chain, k, name) ==
    IF lookup_local(chain[k], name) # {}
    THEN lookup_local(chain[k], name)
    ELSE IF k > 1 THEN lookup(chain, k - 1, name) ELSE {}

is_defined_local(scope, name) == name \in DOMAIN scope.symbols

\* Scope::define: [ok, scope]
define(scope, symbol) ==
    IF is_defined_local(scope, symbol.name)
    THEN [ok |-> FALSE, scope |-> scope]
    ELSE [ok |-> TRUE,
          scope |-> [scope EXCEPT !.symbols = (symbol.name :> symbol) @@ @]]

lookup_symbol(name) == lookup(scope_chain, Len(scope_chain), name)

\* [sizes, symbol]: the counter of the current scope after the allocation
\* and the symbol with its offset
allocate_stack_space(sizes, symbol) ==
    LET n == sizes[Len(sizes)] + 1
    IN  [sizes |-> [sizes EXCEPT ![Len(sizes)] = n],
         symbol |-> symbol @@ ("stack_offset" :>
                        IF symbol.symbol_type = "VARIABLE" THEN -n * 4 ELSE n * 4)]

var_decl_line(vt, name) ==
    LET has == {i \in DOMAIN vt : name \in DOMAIN vt[i]}
    IN  IF has = {} THEN -1 ELSE vt[Max(has)][name]

SymbolTableInit ==
    /\ scope_chain = <<Scope(0)>>
    /\ scope_stack_size = <<0>>
    /\ next_scope_level = 1
    /\ symtab = <<>>

SymTableInit ==
    /\ scope_chain = <<>>
    /\ scope_stack_size = <<>>
    /\ next_scope_level = 0
    /\ symtab = push_scope(<<>>)

SymInit ==
    /\ parser_idle
    /\ lexer_idle
    /\ dump_idle
    /\ decls = <<>>
    /\ SymbolTableInit \/ SymTableInit

\* the client uses the SymbolTable, or the SymTable
OnSymbolTable == next_scope_level >= 1 /\ Len(decls) < MaxOps

OnSymTable == next_scope_level = 0 /\ Len(decls) < MaxOps

enter_scope ==
    /\ OnSymbolTable
    /\ scope_chain' = Append(scope_chain, Scope(next_scope_level))
    /\ next_scope_level' = next_scope_level + 1
    /\ scope_stack_size' = Append(scope_stack_size, 0)
    /\ decls' = Append(decls, [op |-> "enter"])
    /\ UNCHANGED <<symtab, parser_vars, lexer_vars, dump_vars>>

exit_scope ==
    /\ OnSymbolTable
    /\ IF Len(scope_chain) > 1
       THEN /\ scope_chain' = SubSeq(scope_chain, 1, Len(scope_chain) - 1)
            /\ scope_stack_size' =
                   SubSeq(scope_stack_size, 1, Len(scope_stack_size) - 1)
       ELSE UNCHANGED <<scope_chain, scope_stack_size>>
    /\ decls' = Append(decls, [op |-> "exit"])
    /\ UNCHANGED <<next_scope_level, symtab, parser_vars, lexer_vars, dump_vars>>

\* define_variable and define_parameter: allocate_stack_space, then
\* current_scope->define
define_symbol(name, sym_type) ==
    LET a == allocate_stack_space(scope_stack_size,
                 Symbol(name, sym_type, "INT", current_scope.level))
        d == define(current_scope, a.symbol)
    IN  /\ scope_stack_size' = a.sizes
        /\ scope_chain' = [scope_chain EXCEPT ![Len(scope_chain)] = d.scope]
        /\ decls' = Append(decls, [op |-> "define", symbol |-> a.symbol,
                                   ok |-> d.ok])
        /\ UNCHANGED <<next_scope_level, symtab, parser_vars, lexer_vars,
                       dump_vars>>

define_variable ==
    /\ OnSymbolTable
    /\ \E name \in SymNames : define_symbol(name, "VARIABLE")

define_parameter ==
    /\ OnSymbolTable
    /\ \E name \in SymNames : define_symbol(name, "PARAMETER")

SymTable_push_scope ==
    /\ OnSymTable
    /\ symtab' = push_scope(symtab)
    /\ decls' = Append(decls, [op |-> "enter"])
    /\ UNCHANGED <<scope_chain, scope_stack_size, next_scope_level,
                   parser_vars, lexer_vars, dump_vars>>

SymTable_pop_scope ==
    /\ OnSymTable
    /\ symtab' = pop_scope(symtab)
    /\ decls' = Append(decls, [op |-> "exit"])
    /\ UNCHANGED <<scope_chain, scope_stack_size, next_scope_level,
                   parser_vars, lexer_vars, dump_vars>>

\* declare_var at the line Len(decls) + 1; scopes.back() needs a scope, so
\* the client does not declare after it has popped the last one
SymTable_declare_var ==
    /\ OnSymTable
    /\ symtab # <<>>
    /\ \E name \in SymNames :
          /\ symtab' = declare_var(symtab, name, Len(decls) + 1)
          /\ decls' = Append(decls,
                 [op |-> "define",
                  symbol |-> [name |-> name, line |-> Len(decls) + 1],
                  ok |-> ~has_var_current_only(symtab, name)])
    /\ UNCHANGED <<scope_chain, scope_stack_size, next_scope_level,
                   parser_vars, lexer_vars, dump_vars>>

SymNext ==
    \/ enter_scope
    \/ exit_scope
    \/ define_variable
    \/ define_parameter
    \/ SymTable_push_scope
    \/ SymTable_pop_scope
    \/ SymTable_declare_var

SymSpec == SymInit /\ [][SymNext]_vars

-----------------------------------------------------------------------------
(* The claims about the symbol tables.  The scopes are rebuilt from the    *)
(* log of the calls: a stack of maps from a name to the number of the call *)
(* that declared it, of which the first keep scopes are never left.        *)

RECURSIVE Replay(_, _)
Replay(n, keep) ==
    IF n = 0 THEN <<NoVars>>
    ELSE LET s == Replay(n - 1, keep)
             e == decls[n]
         IN  IF e.op = "enter" THEN Append(s, NoVars)
             ELSE IF e.op = "exit"
             THEN IF Len(s) > keep THEN SubSeq(s, 1, Len(s) - 1) ELSE s
             ELSE IF s = <<>> \/ e.symbol.name \in DOMAIN s[Len(s)] THEN s
             ELSE [s EXCEPT ![Len(s)] = (e.symbol.name :> n) @@ @]

\* the call that made the innermost declaration of name in force, 0 if none
Innermost(s, name) ==
    LET has == {i \in DOMAIN s : name \in DOMAIN s[i]}
    IN  IF has = {} THEN 0 ELSE s[Max(has)][name]

UsesSymbolTable == next_scope_level >= 1

Keep == IF UsesSymbolTable THEN 1 ELSE 0

\* C17: a declaration succeeds exactly when the current scope does not hold
\* the name, whatever the outer scopes hold; a lookup returns the
\* declaration of the innermost open scope that holds the name, so an inner
\* declaration is found until its scope is exited and the outer one again
\* after that (Scope::lookup through SymbolTable::lookup_symbol, and
\* SymTable::has_var and var_decl_line).
C17_InnermostDeclaration ==
    /\ \A n \in DOMAIN decls :
          decls[n].op = "define" =>
              LET before == Replay(n - 1, Keep)
              IN  decls[n].ok <=>
                      decls[n].symbol.name \notin DOMAIN before[Len(before)]
    /\ \A name \in SymNames :
          LET i == Innermost(Replay(Len(decls), Keep), name)
          IN  IF UsesSymbolTable
              THEN lookup_symbol(name) = IF i = 0 THEN {} ELSE {decls[i].symbol}
              ELSE /\ has_var(symtab, name) <=> i # 0
                   /\ var_decl_line(symtab, name) =
                          IF i = 0 THEN -1 ELSE decls[i].symbol.line

\* C17 witness: a name was declared in the global scope and again in an
\* inner scope, the inner scope has been exited and the lookup returns the
\* outer declaration.
C17_Witness ==
    /\ UsesSymbolTable
    /\ Len(scope_chain) = 1
    /\ \E i, j, k \in DOMAIN decls :
          /\ i < j
          /\ j < k
          /\ decls[i].op = "define" /\ decls[i].ok
          /\ decls[j].op = "define" /\ decls[j].ok
          /\ decls[i].symbol.name = decls[j].symbol.name
          /\ decls[i].symbol.scope_level = 0
          /\ decls[j].symbol.scope_level > 0
          /\ decls[k].op = "exit"
          /\ lookup_symbol(decls[i].symbol.name) = {decls[i].symbol}

\* C18: every parameter gets a positive and every local variable a negative
\* stack offset, one word of 4 bytes each: the k-th local variable declared
\* in a scope gets -4k and the k-th parameter +4k, whatever the order of the
\* declarations of the two kinds.
C18_StackOffsets ==
    UsesSymbolTable =>
        \A n \in DOMAIN decls :
            (decls[n].op = "define" /\ decls[n].ok) =>
                LET sym == decls[n].symbol
                    k == Cardinality({m \in 1..n :
                            /\ decls[m].op = "define"
                            /\ decls[m].ok
                            /\ decls[m].symbol.scope_level = sym.scope_level
                            /\ decls[m].symbol.symbol_type = sym.symbol_type})
                IN  sym.stack_offset =
                        IF sym.symbol_type = "VARIABLE" THEN -4 * k ELSE 4 * k

-----------------------------------------------------------------------------
(* The grammar of the language as a recogniser of the token stream: each   *)
(* operator takes the position of a token and returns the position after   *)
(* the phrase that starts there, 0 if no phrase of the kind starts there.  *)
(* The levels of the binary operators accept the same streams as one       *)
(* level: Expr is Unary (binop Unary)*.                                    *)

MaxBody == 2       \* statements in the body of main, grammar inputs

\* statements that exercise the productions of Stmt and of the expression
\* levels, well-formed and not, as sequences of words
GrammarPool ==
    << <<kInt, nX, AS, n1, SC>>,
       <<nX, AS, <<"-">>, LP, nX, <<"*">>, n1, RP, <<"<">>, <<"!">>, main, LP, RP,
         <<"&", "&">>, n1, SC>>,
       <<nX, AS, LP, nX, SC>>,
       <<nX, AS, nX, PL, SC>>,
       <<main, LP, nX, CM, n1, <<"|", "|">>, nX, RP, SC>>,
       <<main, LP, nX, CM, RP, SC>>,
       <<kIf, LP, nX, RP, LB, kBreak, SC, RB, kElse, nX, AS, n1, SC>>,
       <<kIf, LP, nX, RP, kElse, SC>>,
       <<kWhile, LP, nX, <<">", "=">>, n1, RP, LB, kContinue, SC, RB>>,
       <<kReturn, <<"-">>, <<"-">>, nX, <<"%">>, n1, SC>>,
       <<kReturn, SC>>,
       <<nY, AS, n1, SC>>,
       <<nF, LP, RP, SC>>,
       <<nX, <<"=", "=">>, n1, SC>>,
       <<n1, AS, nX, SC>>,
       <<PL, SC>>,
       <<SC>> >>

GrammarMain(body) ==
    <<kInt, main, LP, RP, LB>>
        \o Cat([i \in DOMAIN body |-> GrammarPool[body[i]]]) \o <<RB>>

\* main with a body of up to MaxBody statements of GrammarPool, and the
\* programs made of function definitions
GrammarSources ==
    {Join(GrammarMain(b), SP) : b \in SeqsUpTo(DOMAIN GrammarPool, MaxBody)}
    \cup {Join(ws, SP) : ws \in Programs}

GrammarInit == InitOn(GrammarSources)

GrammarSpec == GrammarInit /\ [][Next]_vars

BinOps ==
    {"T_OROR", "T_ANDAND", "T_LT", "T_GT", "T_LE", "T_GE", "T_EQ", "T_NEQ",
     "T_PLUS", "T_MINUS", "T_MUL", "T_DIV", "T_MOD"}

\* the token t at q, after a phrase that ended at q
Then(q, t) == IF q # 0 /\ TypeAt(q) = t THEN q + 1 ELSE 0

RECURSIVE GExpr(_), GExprTail(_), GUnary(_), GPrimary(_), GArgs(_)
RECURSIVE GStmt(_), GStmts(_), GBlock(_), GParams(_), GFuncDefs(_)

GPrimary(p) ==
    IF TypeAt(p) = "T_ID"
    THEN IF TypeAt(p + 1) # "T_LPAREN" THEN p + 1
         ELSE IF TypeAt(p + 2) = "T_RPAREN" THEN p + 3
         ELSE Then(GArgs(p + 2), "T_RPAREN")
    ELSE IF TypeAt(p) = "T_NUMBER" THEN p + 1
    ELSE IF TypeAt(p) = "T_LPAREN" THEN Then(GExpr(p + 1), "T_RPAREN")
    ELSE 0

GArgs(p) ==
    LET q == GExpr(p)
    IN  IF Then(q, "T_COMMA") # 0 THEN GArgs(q + 1) ELSE q

GUnary(p) ==
    IF TypeAt(p) \in {"T_PLUS", "T_MINUS", "T_NOT"}
    THEN GUnary(p + 1)
    ELSE GPrimary(p)

GExprTail(q) ==
    IF q # 0 /\ TypeAt(q) \in BinOps THEN GExprTail(GUnary(q + 1)) ELSE q

GExpr(p) == GExprTail(GUnary(p))

GStmt(p) ==
    LET t == TypeAt(p)
    IN  IF t = "T_LBRACE" THEN GBlock(p)
        ELSE IF t = "T_SEMI" THEN p + 1
        ELSE IF t = "T_KW_INT"
        THEN IF TypeAt(p + 1) = "T_ID" /\ TypeAt(p + 2) = "T_ASSIGN"
             THEN Then(GExpr(p + 3), "T_SEMI")
             ELSE 0
        ELSE IF t = "T_KW_IF"
        THEN LET c == Then(GExpr(Then(p + 1, "T_LPAREN")), "T_RPAREN")
                 r == IF c = 0 THEN 0 ELSE GStmt(c)
             IN  IF Then(r, "T_KW_ELSE") # 0 THEN GStmt(r + 1) ELSE r
        ELSE IF t = "T_KW_WHILE"
        THEN LET c == Then(GExpr(Then(p + 1, "T_LPAREN")), "T_RPAREN")
             IN  IF c = 0 THEN 0 ELSE GStmt(c)
        ELSE IF t \in {"T_KW_BREAK", "T_KW_CONTINUE"} THEN Then(p + 1, "T_SEMI")
        ELSE IF t = "T_KW_RETURN"
        THEN IF TypeAt(p + 1) = "T_SEMI" THEN p + 2
             ELSE Then(GExpr(p + 1), "T_SEMI")
        ELSE IF t = "T_ID" /\ TypeAt(p + 1) = "T_ASSIGN"
        THEN Then(GExpr(p + 2), "T_SEMI")
        ELSE Then(GExpr(p), "T_SEMI")

\* Stmt* before a "}": the position of the "}"
GStmts(p) ==
    IF p = 0 \/ TypeAt(p) = "T_RBRACE" THEN p ELSE GStmts(GStmt(p))

GBlock(p) == Then(GStmts(Then(p, "T_LBRACE")), "T_RBRACE")

GParams(p) ==
    IF TypeAt(p) = "T_KW_INT" /\ TypeAt(p + 1) = "T_ID"
    THEN IF TypeAt(p + 2) = "T_COMMA" THEN GParams(p + 3) ELSE p + 2
    ELSE 0

GFuncDef(p) ==
    IF /\ TypeAt(p) \in {"T_KW_INT", "T_KW_VOID"}
       /\ TypeAt(p + 1) = "T_ID"
       /\ TypeAt(p + 2) = "T_LPAREN"
    THEN LET q == IF TypeAt(p + 3) = "T_RPAREN" THEN p + 3 ELSE GParams(p + 3)
         IN  GBlock(Then(q, "T_RPAREN"))
    ELSE 0

\* FuncDef+ up to T_EOF: the position of T_EOF
GFuncDefs(p) ==
    LET q == GFuncDef(p)
    IN  IF q = 0 \/ TypeAt(q) = "T_EOF" THEN q ELSE GFuncDefs(q)

Derivable == GFuncDefs(1) # 0

\* the semantic checks, on the token stream
SemanticsOk ==
    /\ DuplicateDefs = {}
    /\ \A p \in VarRefs : tokens[p].lexeme \in VisibleNames(p)
    /\ \A p \in CallSites :
          \/ DefinedEarlier(tokens[p].lexeme, p)
          \/ IsCurrentFunc(tokens[p].lexeme, p)
    /\ \A p \in ReturnSites :
          /\ InFunction(p)
          /\ TypeAt(EnclosingFunc(p)) = "T_KW_INT" <=> TypeAt(p + 1) # "T_SEMI"
    /\ \E q \in MainDefs : GoodMain(q)

InLanguage == Derivable /\ SemanticsOk

\* C20: the error list of the parser is empty exactly for the token streams
\* of the language: no error is ever recorded on a stream that the grammar
\* derives and that passes the semantic checks (no duplicate function, names
\* declared before use, return consistency, a valid main), and a parse that
\* ends with an empty error list has parsed such a stream.
C20_AcceptsExactlyTheLanguage ==
    /\ errors # <<>> => ~InLanguage
    /\ (Done /\ errors = <<>>) => InLanguage

\* C20 witness: an accepted program with a call, and with a declaration
\* that is used after it.
C20_Witness ==
    /\ Done
    /\ errors = <<>>
    /\ InLanguage
    /\ CallSites # {}
    /\ \E p \in VarRefs : VisibleDecls(p) # {}

----------------------------------------------------------------------------
(* Panic-mode synchronisation, as the specification words it.              *)

\* the synchronisation points the specification lists, and end of input
ListedSyncPoints ==
    {"T_SEMI", "T_RBRACE", "T_KW_INT", "T_KW_VOID", "T_KW_IF", "T_KW_WHILE",
     "T_KW_RETURN", "T_KW_BREAK", "T_KW_CONTINUE", "T_EOF"}

\* the first listed synchronisation point at or after position p
ListedStop(p) ==
    Min({q \in p..Len(tokens) : tokens[q].type \in ListedSyncPoints})

\* where synchronisation from p leaves the parser: past a `;`, at any
\* other point
ListedTarget(p) ==
    IF tokens[ListedStop(p)].type = "T_SEMI"
    THEN ListedStop(p) + 1
    ELSE ListedStop(p)

\* C21: when a statement of a block has failed, sync_to_stmt() moves the
\* parser to the first token at or after the current one that is `;`, `}`,
\* int, void, if, while, return, break, continue or end of input, and past
\* it when it is `;`.
C21_SyncToListedPoint ==
    [][(pc = "Block_after" /\ ret = FALSE) => pos' = ListedTarget(pos)]_vars

----------------------------------------------------------------------------
(* The parser on functions with parameters whose bodies nest blocks, close *)
(* them or not, and hold statements that fail.                             *)

MaxPieces == 3     \* pieces after the head of the first function

\* int f ( int a , int x ) {
BlockHead == <<kInt, nF, LP, kInt, nA, CM, kInt, nX, RP, LB>>

\* what follows the head, as sequences of words: braces on their own, so
\* that blocks are nested, left open or closed once too often, statements
\* of every kind, a statement that fails, and the start of a second function
BlockPool ==
    << <<LB>>,
       <<RB>>,
       <<kInt, nY, AS, nA, SC>>,
       <<RP>>,
       <<RB, kInt, main, LP, RP, LB>>,
       <<kWhile, LP, nA, RP, LB, kIf, LP, nX, RP, kBreak, SC, kElse,
         kContinue, SC, RB>>,
       <<nY, AS, nX, SC, n1, SC, SC, kReturn, nA, SC>> >>

BlockSources ==
    {Join(BlockHead \o Cat([i \in DOMAIN b |-> BlockPool[b[i]]]), SP) :
        b \in SeqsUpTo(DOMAIN BlockPool, MaxPieces)}

BlockInit == InitOn(BlockSources)

BlockSpec == BlockInit /\ [][Next]_vars

\* the calls of Block() that have pushed their scope and not yet returned:
\* the one whose loop is running and those waiting for a statement
OpenBlocks ==
    Cardinality({i \in DOMAIN stack : stack[i] = "Block_after"})
        + (IF pc \in {"Block_loop", "Block_after"} THEN 1 ELSE 0)

\* the parser is between function definitions, or parse() has returned
BetweenFunctions ==
    pc \in {"parse", "CompUnit", "FuncDef", "FuncDef_after", "CompUnit_after",
            "parse_check", "done"}

\* C22: the scope stack holds the global scope and one scope for each call
\* of Block() that is open, so every Block() that returns, with or without
\* its `}`, has popped the scope it pushed: the depth is never below 1, and
\* it is 1 between function definitions and when parse() has returned.
C22_ScopeStackBalanced ==
    /\ Len(vartable) = 1 + OpenBlocks
    /\ BetweenFunctions => Len(vartable) = 1
    /\ vartable[1] = NoVars

\* C22 witness: parse() has returned from a program with nested blocks and
\* no `}` at all, so every Block() was left through the missing-brace path,
\* and the stack is back at the global scope.
C22_Witness ==
    /\ Done
    /\ Len(vartable) = 1
    /\ \E p \in Positions :
          TypeAt(p) = "T_LBRACE" /\ p + 1 \in Positions
              /\ TypeAt(p + 1) = "T_LBRACE"
    /\ \A p \in Positions : TypeAt(p) # "T_RBRACE"
    /\ \E c \in checks : c.kind = "syntax" /\ TypeAt(c.pos) = "T_EOF"

\* the scope of a function body as it is entered: the parameters of the
\* current function, each declared at the line of the definition
ParamScope ==
    [n \in Range(func_table[current_function].params) |->
        func_table[current_function].declared_line]

\* C23: a Block() entered from FuncDef (the scope stack holds the global
\* scope alone) pushes one scope that holds the parameters of the function;
\* a Block() entered inside a body pushes an empty scope, the parameters
\* having been injected once, into the scope of the body.
C23_ParamsInjectedOnce ==
    [][(pc = "Block" /\ pc' = "Block_loop") =>
          vartable' = Append(vartable,
                          IF Len(vartable) = 1 THEN ParamScope ELSE NoVars)]_vars

----------------------------------------------------------------------------
(* Definitions that SymbolTable refuses, and the stack slots of the        *)
(* symbols in force.                                                       *)

\* the step is a call of define_variable or define_parameter
DefineCall ==
    /\ UsesSymbolTable
    /\ Len(decls') = Len(decls) + 1
    /\ decls'[Len(decls')].op = "define"

\* C24: define_variable and define_parameter return false exactly when the
\* current scope holds the name already, and then the call changes nothing:
\* the scopes with their symbols and the stack-size counters, among them the
\* one get_current_stack_size() returns, are as before the call.
C24_RejectedDefinitionHasNoEffect ==
    [][DefineCall =>
          LET d == decls'[Len(decls')]
          IN  /\ d.ok <=> ~is_defined_local(current_scope, d.symbol.name)
              /\ ~d.ok => UNCHANGED <<scope_chain, scope_stack_size,
                                      next_scope_level>>]_vars

\* the symbols in force: what lookup_symbol finds for the names, each the
\* innermost definition of its name on the current chain
LiveSymbols == UNION {lookup_symbol(n) : n \in SymNames}

\* C25: after any sequence of enter_scope, exit_scope, define_variable and
\* define_parameter, two different symbols that are in force at the same
\* time never have the same stack offset: a local of an inner block does
\* not share its slot with a local of an enclosing scope.
C25_LiveOffsetsDistinct ==
    UsesSymbolTable =>
        \A a, b \in LiveSymbols : a # b => a.stack_offset # b.stack_offset

====
